---- MODULE Spec2Model ----
(***************************************************************************)
(* Environment configuration resolution and merge engine of the            *)
(* Playwright multi-environment demo: selector validation, test data       *)
(* builders, config overlays, the merge of createEnvironmentConfig, the    *)
(* i18n helpers, the fixture layer and the runner bootstrap                *)
(* (playwright.config.ts).                                                 *)
(*                                                                         *)
(* The records handed to tests are objects on a heap: heap[r] is the value *)
(* of the object r, and tests[t] is the object that test t was given.      *)
(*                                                                         *)
(* JavaScript strings that go through a case conversion are sequences of   *)
(* one-character strings; `undefined` is the record Undefined; an optional *)
(* string is Undefined or Str(s); a worker count is Undefined, Num(n) or   *)
(* Str(s).  Objects are functions from property names to values, so that a *)
(* property may be absent.                                                 *)
(***************************************************************************)
EXTENDS Integers, Sequences, FiniteSets, TLC

VARIABLES processEnv, baseConfig, console, reads, call, ncalls, heap, tests,
          held, playwrightConfig, groups, resolutions

vars == <<processEnv, baseConfig, console, reads, call, ncalls, heap, tests,
          held, playwrightConfig, groups, resolutions>>

\* Number of calls made into the modules by one process.
MaxCalls == 2

-----------------------------------------------------------------------------
(* JavaScript values *)

Undefined == [undef |-> TRUE]
Str(s) == [str |-> s]
Num(n) == [num |-> n]

\* typeof v === "number"
IsNumber(v) == "num" \in DOMAIN v

\* !v for an optional string: undefined and "" are falsy
Falsy(v) == v = Undefined \/ v.str = <<>>

LowerLetters == <<"a","b","c","d","e","f","g","h","i","j","k","l","m",
                  "n","o","p","q","r","s","t","u","v","w","x","y","z">>
UpperLetters == <<"A","B","C","D","E","F","G","H","I","J","K","L","M",
                  "N","O","P","Q","R","S","T","U","V","W","X","Y","Z">>

toUpperCaseChar(c) ==
  IF \E i \in DOMAIN LowerLetters : LowerLetters[i] = c
  THEN UpperLetters[CHOOSE i \in DOMAIN LowerLetters : LowerLetters[i] = c]
  ELSE c

toLowerCaseChar(c) ==
  IF \E i \in DOMAIN UpperLetters : UpperLetters[i] = c
  THEN LowerLetters[CHOOSE i \in DOMAIN UpperLetters : UpperLetters[i] = c]
  ELSE c

\* String.prototype.toUpperCase / toLowerCase
toUpperCase(s) == [i \in 1..Len(s) |-> toUpperCaseChar(s[i])]
toLowerCase(s) == [i \in 1..Len(s) |-> toLowerCaseChar(s[i])]

\* { ...a, ...b }: own properties of a, then those of b over them
Spread(a, b) ==
  [k \in DOMAIN a \cup DOMAIN b |-> IF k \in DOMAIN b THEN b[k] ELSE a[k]]

\* obj.k, undefined when the property is absent
Get(obj, k) == IF k \in DOMAIN obj THEN obj[k] ELSE Undefined

\* { ...obj.k } where obj.k may be undefined: spreading undefined adds nothing
Group(obj, k) == IF k \in DOMAIN obj THEN obj[k] ELSE <<>>

-----------------------------------------------------------------------------
(* Domain types *)

PROD == <<"P","R","O","D">>
TEST == <<"T","E","S","T">>
EN == <<"e","n">>
CS == <<"c","s">>

\* Object.values(TestEnvironment), Object.values(TestLanguage)
TestEnvironment == {PROD, TEST}
TestLanguage == {EN, CS}

-----------------------------------------------------------------------------
(* Environment data builders *)

createTestTestData(language) ==
  [ environment |-> TEST,
    language |-> language,
    urls |-> [ pmtool |-> "https://test.tredgate.com/pmtool",
               tegbUrl |-> "https://test.tegb.com" ],
    users |->
      [ pmtool |->
          [ admin |-> [ username |-> "test_admin",
                        password |-> "test_admin_pass",
                        description |-> "Test environment administrator account" ],
            regular |-> [ username |-> "test_user",
                          password |-> "test_user_pass",
                          description |-> "Test environment regular user account" ],
            test |-> [ username |-> "automated_test_user",
                       password |-> "automated_pass",
                       description |-> "Dedicated automation user for test environment" ] ],
        tegb |->
          [ admin |-> [ username |-> "test_admin_tegb",
                        password |-> "test_admin_tegb_pass",
                        description |-> "Test environment TEGb administrator account" ] ] ],
    timeouts |-> [ short |-> 3000, medium |-> 10000, long |-> 20000 ] ]

createProdTestData(language) ==
  [ environment |-> PROD,
    language |-> language,
    urls |-> [ pmtool |-> "https://tredgate.com/pmtool",
               tegbUrl |-> "https://tegb-frontend-88542200c6db.herokuapp.com/" ],
    users |->
      [ pmtool |->
          [ admin |-> [ username |-> "o2_user",
                        password |-> "o2_user123",
                        description |-> "Main administrator account for production testing" ],
            regular |-> [ username |-> "user",
                          password |-> "user",
                          description |-> "Regular user account for standard functionality testing" ],
            test |-> [ username |-> "test",
                       password |-> "test",
                       description |-> "Dedicated test user for automated testing" ] ],
        tegb |->
          [ admin |-> [ username |-> "admin_tegb",
                        password |-> "admin_tegb_pass",
                        description |-> "Main administrator account for TEGb production testing" ] ] ],
    timeouts |-> [ short |-> 5000, medium |-> 15000, long |-> 30000 ] ]

-----------------------------------------------------------------------------
(* Environment config overlays *)

\* Faulty variant: the global timeout copied from the overlay of TEST.
createProdConfig_testTimeout(testData) ==
  [ timeout |-> 20000,
    retries |-> 1,
    use |-> [ actionTimeout |-> testData.timeouts.medium,
              navigationTimeout |-> testData.timeouts.long,
              trace |-> "retain-on-failure",
              screenshot |-> "only-on-failure" ],
    expect |-> [ timeout |-> testData.timeouts.medium ] ]

createProdConfig(testData) ==
  [ timeout |-> 30000,
    retries |-> 1,
    use |-> [ actionTimeout |-> testData.timeouts.medium,
              navigationTimeout |-> testData.timeouts.long,
              trace |-> "retain-on-failure",
              screenshot |-> "only-on-failure" ],
    expect |-> [ timeout |-> testData.timeouts.medium ] ]

\* Faulty variant: the overlay of TEST sets no retries.
createTestConfig_noRetries(testData) ==
  [ timeout |-> 20000,
    workers |-> Num(2),
    use |-> [ actionTimeout |-> testData.timeouts.short,
              navigationTimeout |-> testData.timeouts.medium,
              trace |-> "retain-on-failure",
              screenshot |-> "only-on-failure" ],
    expect |-> [ timeout |-> testData.timeouts.medium ] ]

createTestConfig(testData) ==
  [ timeout |-> 20000,
    retries |-> 0,
    workers |-> Num(2),
    use |-> [ actionTimeout |-> testData.timeouts.short,
              navigationTimeout |-> testData.timeouts.medium,
              trace |-> "retain-on-failure",
              screenshot |-> "only-on-failure" ],
    expect |-> [ timeout |-> testData.timeouts.medium ] ]

-----------------------------------------------------------------------------
(* Configuration resolver *)

\* The value of the module constant baseConfig, evaluated at module load.
\* process.env.CI is truthy when it is set to a non-empty string.
\* Faulty variant: CI counts as set whenever it is defined, the empty string
\* included.
baseConfigAtLoad_ciDefined(penv) ==
  [ testDir |-> "./tests",
    fullyParallel |-> TRUE,
    forbidOnly |-> penv.CI # Undefined,
    retries |-> IF penv.CI # Undefined THEN 2 ELSE 0,
    workers |-> IF penv.CI # Undefined THEN Num(1) ELSE Undefined,
    reporter |-> "html",
    timeout |-> 5000,
    expect |-> [ timeout |-> 5000 ],
    use |-> [ trace |-> "retain-on-failure",
              screenshot |-> "only-on-failure",
              actionTimeout |-> 10000,
              navigationTimeout |-> 20000 ] ]

baseConfigAtLoad(penv) ==
  [ testDir |-> "./tests",
    fullyParallel |-> TRUE,
    forbidOnly |-> ~Falsy(penv.CI),
    retries |-> IF ~Falsy(penv.CI) THEN 2 ELSE 0,
    workers |-> IF ~Falsy(penv.CI) THEN Num(1) ELSE Undefined,
    reporter |-> "html",
    timeout |-> 5000,
    expect |-> [ timeout |-> 5000 ],
    use |-> [ trace |-> "retain-on-failure",
              screenshot |-> "only-on-failure",
              actionTimeout |-> 10000,
              navigationTimeout |-> 20000 ] ]

\* What a function of the resolver does besides returning: the diagnostics it
\* writes and the process environment variables it reads.
Effect(value, warn, log, rd) ==
  [ value |-> value, warn |-> warn, log |-> log, reads |-> rd ]

ResolverReads(name) == {<<"environment-config", name>>}

\* Faulty variant: the comparison made on the value as it was given, without toUpperCase.
getCurrentEnvironment_caseSensitive(penv) ==
  LET env == penv.TEST_ENV
  IN  IF Falsy(env) \/ env.str \notin TestEnvironment
      THEN Effect(PROD, 1, 0, ResolverReads("TEST_ENV"))
      ELSE Effect(env.str, 0, 0, ResolverReads("TEST_ENV"))

\* Faulty variant: the fallback taken without a console.warn.
getCurrentEnvironment_silent(penv) ==
  LET raw == penv.TEST_ENV
      env == IF raw = Undefined THEN Undefined ELSE Str(toUpperCase(raw.str))
  IN  IF Falsy(env) \/ env.str \notin TestEnvironment
      THEN Effect(PROD, 0, 0, ResolverReads("TEST_ENV"))
      ELSE Effect(env.str, 0, 0, ResolverReads("TEST_ENV"))

\* Faulty variant: only the missing value is replaced, any other string passes.
getCurrentEnvironment_unvalidated(penv) ==
  LET raw == penv.TEST_ENV
      env == IF raw = Undefined THEN Undefined ELSE Str(toUpperCase(raw.str))
  IN  IF Falsy(env)
      THEN Effect(PROD, 1, 0, ResolverReads("TEST_ENV"))
      ELSE Effect(env.str, 0, 0, ResolverReads("TEST_ENV"))

getCurrentEnvironment(penv) ==
  LET raw == penv.TEST_ENV
      env == IF raw = Undefined THEN Undefined ELSE Str(toUpperCase(raw.str))
  IN  IF Falsy(env) \/ env.str \notin TestEnvironment
      THEN Effect(PROD, 1, 0, ResolverReads("TEST_ENV"))
      ELSE Effect(env.str, 0, 0, ResolverReads("TEST_ENV"))

\* Faulty variant: only the missing value is replaced, any other string passes.
getCurrentLanguage_unchecked(penv) ==
  LET raw == penv.TEST_LANGUAGE
      lang == IF raw = Undefined THEN Undefined ELSE Str(toLowerCase(raw.str))
  IN  IF Falsy(lang)
      THEN Effect(EN, 1, 0, ResolverReads("TEST_LANGUAGE"))
      ELSE Effect(lang.str, 0, 0, ResolverReads("TEST_LANGUAGE"))

getCurrentLanguage(penv) ==
  LET raw == penv.TEST_LANGUAGE
      lang == IF raw = Undefined THEN Undefined ELSE Str(toLowerCase(raw.str))
  IN  IF Falsy(lang) \/ lang.str \notin TestLanguage
      THEN Effect(EN, 1, 0, ResolverReads("TEST_LANGUAGE"))
      ELSE Effect(lang.str, 0, 0, ResolverReads("TEST_LANGUAGE"))

\* The outcome of a function that may throw.
Return(v) == [ threw |-> FALSE, value |-> v ]
Throw(message, detail) == [ threw |-> TRUE, error |-> message, detail |-> detail ]

\* Faulty variant: the default branch falls back to the production record.
getTestData_fallback(environment, language) ==
  CASE environment = TEST -> Return(createTestTestData(language))
    [] OTHER -> Return(createProdTestData(language))

\* Faulty variant: the record built last is kept per environment and returned
\* again, whatever the language asked for.
getTestData_cached(environment, language) ==
  IF call.op = "getTestData" /\ call.args[1] = environment /\ ~call.outcome.threw
  THEN call.outcome
  ELSE CASE environment = PROD -> Return(createProdTestData(language))
         [] environment = TEST -> Return(createTestTestData(language))
         [] OTHER -> Throw("Unsupported environment: ", environment)

\* Faulty variant: the medium timeout of PROD written with a digit too many.
getTestData_mediumTooLong(environment, language) ==
  CASE environment = PROD ->
         Return([ createProdTestData(language) EXCEPT !.timeouts.medium = 150000 ])
    [] environment = TEST -> Return(createTestTestData(language))
    [] OTHER -> Throw("Unsupported environment: ", environment)

\* Faulty variant: the record of TEST lacks the role test of pmtool.
getTestData_roleMissing(environment, language) ==
  CASE environment = PROD -> Return(createProdTestData(language))
    [] environment = TEST ->
         Return([ createTestTestData(language) EXCEPT
                    !.users.pmtool = [ r \in {"admin", "regular"} |-> @[r] ] ])
    [] OTHER -> Throw("Unsupported environment: ", environment)

\* Faulty variant: the two cases of the switch call each other's builder.
getTestData_swapped(environment, language) ==
  CASE environment = PROD -> Return(createTestTestData(language))
    [] environment = TEST -> Return(createProdTestData(language))
    [] OTHER -> Throw("Unsupported environment: ", environment)

getTestData(environment, language) ==
  CASE environment = PROD -> Return(createProdTestData(language))
    [] environment = TEST -> Return(createTestTestData(language))
    [] OTHER -> Throw("Unsupported environment: ", environment)

\* Faulty variant: a single-level merge, the nested groups taken whole from the override.
mergedConfig_shallow(base, environmentOverrides, environment, language, testData) ==
  Spread(Spread(base, environmentOverrides),
         [ environment |-> environment,
           language |-> language,
           testData |-> testData,
           workers |-> IF IsNumber(Get(environmentOverrides, "workers"))
                       THEN environmentOverrides.workers
                       ELSE base.workers ])

\* Faulty variant: the base spread over the override, so that the base wins.
mergedConfig_baseWins(base, environmentOverrides, environment, language, testData) ==
  Spread(Spread(environmentOverrides, base),
         [ environment |-> environment,
           language |-> language,
           testData |-> testData,
           workers |-> IF IsNumber(Get(environmentOverrides, "workers"))
                       THEN environmentOverrides.workers
                       ELSE base.workers,
           use |-> Spread(Group(base, "use"), Group(environmentOverrides, "use")),
           expect |-> Spread(Group(base, "expect"),
                             Group(environmentOverrides, "expect")) ])

\* Faulty variant: no special handling of workers, which then comes from the spread.
mergedConfig_workersSpread(base, environmentOverrides, environment, language, testData) ==
  Spread(Spread(base, environmentOverrides),
         [ environment |-> environment,
           language |-> language,
           testData |-> testData,
           use |-> Spread(Group(base, "use"), Group(environmentOverrides, "use")),
           expect |-> Spread(Group(base, "expect"),
                             Group(environmentOverrides, "expect")) ])

\* Faulty variant: the facts written first, so that the spreads can replace them.
mergedConfig_factsFirst(base, environmentOverrides, environment, language, testData) ==
  Spread(Spread(Spread([ environment |-> environment,
                         language |-> language,
                         testData |-> testData ], base),
                environmentOverrides),
         [ workers |-> IF IsNumber(Get(environmentOverrides, "workers"))
                       THEN environmentOverrides.workers
                       ELSE base.workers,
           use |-> Spread(Group(base, "use"), Group(environmentOverrides, "use")),
           expect |-> Spread(Group(base, "expect"),
                             Group(environmentOverrides, "expect")) ])

\* The object literal mergedConfig of createEnvironmentConfig.
mergedConfig(base, environmentOverrides, environment, language, testData) ==
  LET spread == Spread(base, environmentOverrides)
      facts == [ environment |-> environment,
                 language |-> language,
                 testData |-> testData,
                 workers |-> IF IsNumber(Get(environmentOverrides, "workers"))
                             THEN environmentOverrides.workers
                             ELSE base.workers,
                 use |-> Spread(Group(base, "use"), Group(environmentOverrides, "use")),
                 expect |-> Spread(Group(base, "expect"),
                                   Group(environmentOverrides, "expect")) ]
  IN  Spread(spread, facts)

createEnvironmentConfig(base, environment, language) ==
  LET data == getTestData(environment, language)
  IN  IF data.threw THEN data
      ELSE CASE environment = PROD ->
                  Return(mergedConfig(base, createProdConfig(data.value),
                                      environment, language, data.value))
             [] environment = TEST ->
                  Return(mergedConfig(base, createTestConfig(data.value),
                                      environment, language, data.value))
             [] OTHER -> Throw("Unsupported environment: ", environment)

\* Faulty variant: the language is not resolved, en is passed on.
getCurrentEnvironmentConfig_defaultLanguage(base, penv) ==
  LET environment == getCurrentEnvironment(penv)
  IN  Effect(createEnvironmentConfig(base, environment.value, EN),
             environment.warn,
             environment.log + 2,
             environment.reads)

getCurrentEnvironmentConfig(base, penv) ==
  LET environment == getCurrentEnvironment(penv)
      language == getCurrentLanguage(penv)
  IN  Effect(createEnvironmentConfig(base, environment.value, language.value),
             environment.warn + language.warn,
             environment.log + language.log + 2,
             environment.reads \cup language.reads)

-----------------------------------------------------------------------------
(* i18n module *)

I18nReads(name) == {<<"i18n", name>>}

\* The imported tables of translated strings.
cs == "i18n/cs"
en == "i18n/en"

\* process.env.TEST_LANGUAGE || "en"
languageOrEn(penv) ==
  IF Falsy(penv.TEST_LANGUAGE) THEN EN ELSE penv.TEST_LANGUAGE.str

tegbTexts(penv) ==
  LET language == languageOrEn(penv)
  IN  Effect(CASE language = CS -> Return(cs)
                [] language = EN -> Return(en)
                [] OTHER -> Throw("Unsupported language: ", language),
             0, 0, I18nReads("TEST_LANGUAGE"))

i18n_getCurrentLanguage(penv) ==
  Effect(Return(languageOrEn(penv)), 0, 0, I18nReads("TEST_LANGUAGE"))

-----------------------------------------------------------------------------
(* Fixture layer *)

\* The testData fixture: the record handed to use(), with one console.log
\* before it; a throw of getTestData propagates before the log.
testDataFixture(penv) ==
  LET environment == getCurrentEnvironment(penv)
      language == getCurrentLanguage(penv)
      data == getTestData(environment.value, language.value)
  IN  Effect(data,
             environment.warn + language.warn,
             IF data.threw THEN 0 ELSE 1,
             environment.reads \cup language.reads)

\* The fixtures the interface EnvironmentFixtures declares, and those the
\* object given to base.extend defines.
DeclaredFixtures == { "testData", "envConfig" }
DefinedFixtures == { "testData" }

\* What the fixtures module exports.
FixtureExports == { "test", "expect", "skipInEnvironments" }

\* Array.prototype.includes
includes(array, v) == \E i \in DOMAIN array : array[i] = v

\* Faulty variant: the helper reads TEST_ENV itself and falls back to PROD only
\* when it is empty, as i18n does for the language.
skipInEnvironments_ownSelector(environments, name, penv) ==
  LET currentEnv == IF Falsy(penv.TEST_ENV) THEN PROD ELSE penv.TEST_ENV.str
  IN  Effect(IF includes(environments, currentEnv)
             THEN << [ skipped |-> TRUE,
                       title |-> <<name, " [Skipped in ", currentEnv, "]">> ] >>
             ELSE << [ skipped |-> FALSE,
                       title |-> <<name, " [", currentEnv, "]">> ] >>,
             0, 0, {<<"environment-fixtures", "TEST_ENV">>})

\* Faulty variant: the two branches exchanged, which is the run-only decision.
skipInEnvironments_inverted(environments, name, penv) ==
  LET currentEnv == getCurrentEnvironment(penv)
  IN  Effect(IF ~includes(environments, currentEnv.value)
             THEN << [ skipped |-> TRUE,
                       title |-> <<name, " [Skipped in ", currentEnv.value, "]">> ] >>
             ELSE << [ skipped |-> FALSE,
                       title |-> <<name, " [", currentEnv.value, "]">> ] >>,
             currentEnv.warn, currentEnv.log, currentEnv.reads)

\* skipInEnvironments: the groups it registers, test.describe.skip or
\* test.describe, each with its title as the parts of the template string.
skipInEnvironments(environments, name, penv) ==
  LET currentEnv == getCurrentEnvironment(penv)
  IN  Effect(IF includes(environments, currentEnv.value)
             THEN << [ skipped |-> TRUE,
                       title |-> <<name, " [Skipped in ", currentEnv.value, "]">> ] >>
             ELSE << [ skipped |-> FALSE,
                       title |-> <<name, " [", currentEnv.value, "]">> ] >>,
             currentEnv.warn, currentEnv.log, currentEnv.reads)

-----------------------------------------------------------------------------
(* playwright.config.ts *)

BootstrapReads(name) == {<<"playwright.config", name>>}

\* Faulty variant: the spread of environmentConfig.use written first, so that
\* the literal's own properties win.
defineConfig_defaultsLast(environmentConfig, penv) ==
  [ testDir |-> IF "testDir" \in DOMAIN environmentConfig /\ environmentConfig.testDir # ""
                THEN environmentConfig.testDir ELSE "./tests",
    fullyParallel |-> IF "fullyParallel" \in DOMAIN environmentConfig
                      THEN environmentConfig.fullyParallel ELSE TRUE,
    forbidOnly |-> ~Falsy(penv.CI),
    retries |-> IF "retries" \in DOMAIN environmentConfig
                THEN environmentConfig.retries
                ELSE IF ~Falsy(penv.CI) THEN 2 ELSE 0,
    workers |-> IF Get(environmentConfig, "workers") # Undefined
                THEN environmentConfig.workers
                ELSE IF ~Falsy(penv.CI) THEN Num(1) ELSE Undefined,
    timeout |-> IF "timeout" \in DOMAIN environmentConfig /\ environmentConfig.timeout # 0
                THEN environmentConfig.timeout ELSE 30000,
    reporter |-> IF "reporter" \in DOMAIN environmentConfig /\ environmentConfig.reporter # ""
                 THEN environmentConfig.reporter ELSE "html",
    use |-> Spread(Group(environmentConfig, "use"),
                   [ actionTimeout |-> environmentConfig.testData.timeouts.medium,
                     navigationTimeout |-> environmentConfig.testData.timeouts.long,
                     trace |-> "retain-on-failure",
                     screenshot |-> "only-on-failure" ]),
    projects |-> << [ name |-> "chromium", use |-> "Desktop Chrome" ],
                    [ name |-> "firefox", use |-> "Desktop Firefox" ],
                    [ name |-> "webkit", use |-> "Desktop Safari" ] >> ]

\* The object playwright.config.ts gives to defineConfig and exports.
defineConfig(environmentConfig, penv) ==
  [ testDir |-> IF "testDir" \in DOMAIN environmentConfig /\ environmentConfig.testDir # ""
                THEN environmentConfig.testDir ELSE "./tests",
    fullyParallel |-> IF "fullyParallel" \in DOMAIN environmentConfig
                      THEN environmentConfig.fullyParallel ELSE TRUE,
    forbidOnly |-> ~Falsy(penv.CI),
    retries |-> IF "retries" \in DOMAIN environmentConfig
                THEN environmentConfig.retries
                ELSE IF ~Falsy(penv.CI) THEN 2 ELSE 0,
    workers |-> IF Get(environmentConfig, "workers") # Undefined
                THEN environmentConfig.workers
                ELSE IF ~Falsy(penv.CI) THEN Num(1) ELSE Undefined,
    timeout |-> IF "timeout" \in DOMAIN environmentConfig /\ environmentConfig.timeout # 0
                THEN environmentConfig.timeout ELSE 30000,
    reporter |-> IF "reporter" \in DOMAIN environmentConfig /\ environmentConfig.reporter # ""
                 THEN environmentConfig.reporter ELSE "html",
    use |-> Spread([ actionTimeout |-> environmentConfig.testData.timeouts.medium,
                     navigationTimeout |-> environmentConfig.testData.timeouts.long,
                     trace |-> "retain-on-failure",
                     screenshot |-> "only-on-failure" ],
                   Group(environmentConfig, "use")),
    projects |-> << [ name |-> "chromium", use |-> "Desktop Chrome" ],
                    [ name |-> "firefox", use |-> "Desktop Firefox" ],
                    [ name |-> "webkit", use |-> "Desktop Safari" ] >> ]

-----------------------------------------------------------------------------
(* The process: its environment variables, chosen at start, and the calls   *)
(* made into the modules.                                                  *)

\* Every way of writing the letters of w in upper or lower case.
CaseVariants(w) ==
  { [i \in 1..Len(w) |-> IF i \in U THEN toUpperCaseChar(w[i])
                                    ELSE toLowerCaseChar(w[i])] :
      U \in SUBSET (1..Len(w)) }

InvalidEnvStrings ==
  { <<>>, <<"d","e","v">>, <<"P","R","O">>, <<"P","R","O","D"," ">>, <<"e","n">> }

InvalidLanguageStrings ==
  { <<>>, <<"d","e">>, <<"c","z">>, <<"e","n","-","U","S">>, <<"T","E","S","T">> }

\* Values of TEST_ENV and TEST_LANGUAGE: absent, every letter case of every
\* member, and strings that are no member.
EnvInputs ==
  {Undefined} \cup
  { Str(s) : s \in CaseVariants(PROD) \cup CaseVariants(TEST) \cup InvalidEnvStrings }

LanguageInputs ==
  {Undefined} \cup
  { Str(s) : s \in CaseVariants(EN) \cup CaseVariants(CS) \cup InvalidLanguageStrings }

\* A few of them, for the runs that follow a process through several calls.
SomeEnvInputs ==
  { Undefined, Str(<<>>), Str(PROD), Str(TEST), Str(<<"p","r","o","d">>),
    Str(<<"T","e","s","t">>), Str(<<"d","e","v">>), Str(<<"P","R","O","D"," ">>) }

SomeLanguageInputs ==
  { Undefined, Str(<<>>), Str(EN), Str(CS), Str(<<"E","N">>), Str(<<"C","s">>),
    Str(<<"d","e">>), Str(<<"c","z">>) }

CIInputs == { Undefined, Str(<<>>), Str(<<"t","r","u","e">>) }

\* Arguments handed to getTestData and createEnvironmentConfig, some of them
\* outside the enumeration.
EnvArgs == TestEnvironment \cup { <<"S","T","A","G","E">>, <<"p","r","o","d">>, <<>> }
LanguageArgs == TestLanguage

NoCall == [ op |-> "none", args |-> <<>>, outcome |-> Return(Undefined),
            warn |-> 0, log |-> 0 ]

\* No config is held by a caller; playwright.config.ts is not evaluated yet.
NoConfig == [ none |-> TRUE ]
NotLoaded == [ loaded |-> FALSE ]

\* A process starts with its environment variables set and the modules
\* loaded, which evaluates baseConfig.
Started(envs, languages, cis) ==
  /\ processEnv \in [ TEST_ENV : envs, TEST_LANGUAGE : languages, CI : cis ]
  /\ baseConfig = baseConfigAtLoad(processEnv)
  /\ console = [ warn |-> 0, log |-> 0 ]
  /\ reads = ResolverReads("CI")
  /\ call = NoCall
  /\ ncalls = 0
  /\ heap = <<>>
  /\ tests = <<>>
  /\ held = NoConfig
  /\ playwrightConfig = NotLoaded
  /\ groups = <<>>
  /\ resolutions = <<>>

Init == Started(SomeEnvInputs, SomeLanguageInputs, CIInputs)

\* One call: its outcome is recorded, its diagnostics go to the console and
\* its reads of the process environment are noted.
Recorded(op, args, outcome, warn, log, rd) ==
  /\ ncalls < MaxCalls
  /\ ncalls' = ncalls + 1
  /\ call' = [ op |-> op, args |-> args, outcome |-> outcome,
               warn |-> warn, log |-> log ]
  /\ console' = [ warn |-> console.warn + warn, log |-> console.log + log ]
  /\ reads' = reads \cup rd
  /\ UNCHANGED <<processEnv, baseConfig>>

\* A call that gives no object to a test and no config to its caller.
Called(op, args, outcome, warn, log, rd) ==
  /\ Recorded(op, args, outcome, warn, log, rd)
  /\ UNCHANGED <<heap, tests, held, playwrightConfig, groups, resolutions>>

\* Faulty variant: only the top-level spread is made, so that a group the
\* override leaves out is the base's own object.
SharedWithBase_byReference(environmentOverrides) ==
  { g \in {"use", "expect"} : g \notin DOMAIN environmentOverrides }

\* The groups of a merged config that are the base's own objects: none, use
\* and expect are object literals.
SharedWithBase(environmentOverrides) == {}

\* What the caller holds after a call that returns a merged config: the
\* object, and which of its groups are shared with baseConfig.
Kept(outcome, environmentOverrides) ==
  IF outcome.threw THEN NoConfig
  ELSE [ value |-> outcome.value, shared |-> SharedWithBase(environmentOverrides) ]

\* The overlay createEnvironmentConfig merges for the environment.
OverlayOf(environment, language) ==
  IF environment = PROD THEN createProdConfig(createProdTestData(language))
                        ELSE createTestConfig(createTestTestData(language))

\* A call that returns a merged config, by the named caller when it goes
\* through getCurrentEnvironmentConfig.
CalledForConfig(op, args, outcome, warn, log, rd, environmentOverrides, resolvedBy) ==
  /\ Recorded(op, args, outcome, warn, log, rd)
  /\ held' = Kept(outcome, environmentOverrides)
  /\ resolutions' = resolutions \o resolvedBy
  /\ UNCHANGED <<heap, tests, playwrightConfig, groups>>

CallGetCurrentEnvironment ==
  LET r == getCurrentEnvironment(processEnv)
  IN  Called("getCurrentEnvironment", <<>>, Return(r.value), r.warn, r.log, r.reads)

CallGetCurrentLanguage ==
  LET r == getCurrentLanguage(processEnv)
  IN  Called("getCurrentLanguage", <<>>, Return(r.value), r.warn, r.log, r.reads)

CallGetTestData ==
  \E e \in EnvArgs, l \in LanguageArgs :
    Called("getTestData", <<e, l>>, getTestData(e, l), 0, 0, {})

CallCreateEnvironmentConfig ==
  \E e \in EnvArgs, l \in LanguageArgs :
    CalledForConfig("createEnvironmentConfig", <<e, l>>,
                    createEnvironmentConfig(baseConfig, e, l), 0, 0, {},
                    OverlayOf(e, l), <<>>)

\* getCurrentEnvironmentConfig() called from the named module.
ResolvedBy(caller) ==
  LET r == getCurrentEnvironmentConfig(baseConfig, processEnv)
  IN  CalledForConfig("getCurrentEnvironmentConfig", <<>>, r.value, r.warn, r.log,
                      r.reads, OverlayOf(r.value.value.environment,
                                         r.value.value.language), <<caller>>)

CallGetCurrentEnvironmentConfig == ResolvedBy("caller")

CallTegbTexts ==
  LET r == tegbTexts(processEnv)
  IN  Called("tegbTexts", <<>>, r.value, r.warn, r.log, r.reads)

CallI18nGetCurrentLanguage ==
  LET r == i18n_getCurrentLanguage(processEnv)
  IN  Called("i18n.getCurrentLanguage", <<>>, r.value, r.warn, r.log, r.reads)

\* Faulty variant: one record, made for the first test and handed to every test.
Allocate_shared(h, value) ==
  IF h = <<>> THEN [ heap |-> <<value>>, ref |-> 1 ]
              ELSE [ heap |-> h, ref |-> 1 ]

\* The object literal of a data builder makes a new object at each call.
Allocate(h, value) == [ heap |-> Append(h, value), ref |-> Len(h) + 1 ]

\* The testData fixture sets up the next test: the record built for it is
\* handed to use(), unless building it threw.
UseTestDataFixture ==
  LET r == testDataFixture(processEnv)
      a == Allocate(heap, r.value.value)
  IN  /\ Recorded("testData", <<>>, r.value, r.warn, r.log, r.reads)
      /\ IF r.value.threw
         THEN UNCHANGED <<heap, tests>>
         ELSE /\ heap' = a.heap
              /\ tests' = Append(tests, a.ref)
      /\ UNCHANGED <<held, playwrightConfig, groups, resolutions>>

\* The body of test t writes into the record it was given.
TestModifiesRecord ==
  \E t \in DOMAIN tests :
    /\ heap[tests[t]].timeouts.short # 0
    /\ heap' = [ heap EXCEPT ![tests[t]].timeouts.short = 0 ]
    /\ UNCHANGED <<processEnv, baseConfig, console, reads, call, ncalls, tests,
                   held, playwrightConfig, groups, resolutions>>

Next ==
  \/ CallGetCurrentEnvironment
  \/ CallGetCurrentLanguage
  \/ CallGetTestData
  \/ CallCreateEnvironmentConfig
  \/ CallGetCurrentEnvironmentConfig
  \/ CallTegbTexts
  \/ CallI18nGetCurrentLanguage
  \/ UseTestDataFixture
  \/ TestModifiesRecord

Spec == Init /\ [][Next]_vars

-----------------------------------------------------------------------------
(* The functions that read a selector, over every selector value. *)

InitSelectors == Started(EnvInputs, LanguageInputs, {Undefined})

NextSelectors ==
  \/ CallGetCurrentEnvironment
  \/ CallGetCurrentLanguage
  \/ CallTegbTexts
  \/ CallI18nGetCurrentLanguage
  \/ CallGetCurrentEnvironmentConfig
  \/ UseTestDataFixture

SpecSelectors == InitSelectors /\ [][NextSelectors]_vars

-----------------------------------------------------------------------------
(* The merge of createEnvironmentConfig, over overrides that define only    *)
(* some of the properties.                                                 *)

UseFields == { "actionTimeout", "navigationTimeout", "trace", "screenshot" }

OverrideUse ==
  [ actionTimeout |-> 15000, navigationTimeout |-> 45000,
    trace |-> "on", screenshot |-> "off" ]

UseOverrides ==
  { [ timeout |-> 30000 ] } \cup
  { [ timeout |-> 30000, use |-> [ k \in S |-> OverrideUse[k] ] ] : S \in SUBSET UseFields }

WorkersOverrides ==
  { Spread([ retries |-> 1, use |-> [ actionTimeout |-> 15000 ] ], Spread(w, e)) :
      w \in { <<>>, [ workers |-> Num(4) ], [ workers |-> Str("50%") ],
              [ workers |-> Undefined ] },
      e \in { <<>>, [ expect |-> <<>> ], [ expect |-> [ timeout |-> 7000 ] ] } }

FactsOverrides ==
  { [ environment |-> TEST, language |-> CS, testData |-> Undefined ],
    [ environment |-> <<"D","E","V">>, testDir |-> "./e2e", reporter |-> "list",
      fullyParallel |-> FALSE, forbidOnly |-> TRUE ] }

Overrides == UseOverrides \cup WorkersOverrides \cup FactsOverrides

ApplyMergedConfig ==
  \E o \in Overrides, e \in TestEnvironment, l \in TestLanguage :
    CalledForConfig("mergedConfig", <<o, e, l>>,
                    Return(mergedConfig(baseConfig, o, e, l, getTestData(e, l).value)),
                    0, 0, {}, o, <<>>)

\* The caller writes a timeout into a group of the config it holds; a group
\* shared with baseConfig is the same object there.
CallerModifiesConfig ==
  \E g \in {"use", "expect"} :
    /\ held # NoConfig
    /\ IF "timeout" \in DOMAIN held.value[g] THEN held.value[g].timeout # 1 ELSE TRUE
    /\ held' = [ held EXCEPT !.value[g] = Spread(@, [ timeout |-> 1 ]) ]
    /\ baseConfig' = IF g \in held.shared
                     THEN [ baseConfig EXCEPT ![g] = Spread(@, [ timeout |-> 1 ]) ]
                     ELSE baseConfig
    /\ UNCHANGED <<processEnv, console, reads, call, ncalls, heap, tests,
                   playwrightConfig, groups, resolutions>>

InitMerge == Started({Undefined}, {Undefined}, CIInputs)

NextMerge ==
  \/ ApplyMergedConfig
  \/ CallCreateEnvironmentConfig
  \/ CallerModifiesConfig

SpecMerge == InitMerge /\ [][NextMerge]_vars

-----------------------------------------------------------------------------
(* One process of a test run: playwright.config.ts is evaluated, then the  *)
(* test files register their groups and the tests run.                     *)

\* Arguments of the registration helpers.
EnvironmentLists == { <<>>, <<TEST>>, <<PROD>>, <<PROD, TEST>>, <<<<"t","e","s","t">>>> }
GroupNames == { "PMTOOL Login/Logout Tests" }
RunOnlyHelpers == { "runOnlyInEnvironments", "testInEnvironments" }

\* Faulty variant: the config is resolved a second time for the use group.
LoadConfig_resolvedTwice ==
  LET r == getCurrentEnvironmentConfig(baseConfig, processEnv)
  IN  /\ ~playwrightConfig.loaded
      /\ ~r.value.threw
      /\ playwrightConfig' = [ loaded |-> TRUE,
                               environmentConfig |-> r.value.value,
                               exported |-> defineConfig(r.value.value, processEnv) ]
      /\ resolutions' = resolutions \o <<"playwright.config", "playwright.config">>
      /\ console' = [ warn |-> console.warn + 2 * r.warn, log |-> console.log + 2 * r.log ]
      /\ reads' = reads \cup r.reads \cup BootstrapReads("CI")
      /\ UNCHANGED <<processEnv, baseConfig, call, ncalls, heap, tests, held, groups>>

\* The process evaluates playwright.config.ts: the merged config is resolved
\* into environmentConfig and the object given to defineConfig is exported.
LoadConfig ==
  LET r == getCurrentEnvironmentConfig(baseConfig, processEnv)
  IN  /\ ~playwrightConfig.loaded
      /\ ~r.value.threw
      /\ playwrightConfig' = [ loaded |-> TRUE,
                               environmentConfig |-> r.value.value,
                               exported |-> defineConfig(r.value.value, processEnv) ]
      /\ resolutions' = Append(resolutions, "playwright.config")
      /\ console' = [ warn |-> console.warn + r.warn, log |-> console.log + r.log ]
      /\ reads' = reads \cup r.reads \cup BootstrapReads("CI")
      /\ UNCHANGED <<processEnv, baseConfig, call, ncalls, heap, tests, held, groups>>

\* A test file calls skipInEnvironments while it is loaded.
CallSkipInEnvironments ==
  \E environments \in EnvironmentLists, name \in GroupNames :
    LET r == skipInEnvironments(environments, name, processEnv)
    IN  /\ Recorded("skipInEnvironments", <<environments, name>>, Return(r.value),
                    r.warn, r.log, r.reads)
        /\ groups' = groups \o r.value
        /\ UNCHANGED <<heap, tests, held, playwrightConfig, resolutions>>

\* A test file imports a run-only helper from the fixtures module and calls
\* it: a name the module does not export is undefined, and calling it throws.
CallRunOnlyHelper ==
  \E helper \in RunOnlyHelpers, environments \in { <<TEST>>, <<PROD>> },
     name \in GroupNames :
    /\ helper \notin FixtureExports
    /\ Called(helper, <<environments, name>>,
              Throw("TypeError: is not a function", helper), 0, 0, {})

\* A test asks for a fixture that is declared and not defined: the runner
\* rejects the test for its unknown parameter.
UseUndefinedFixture ==
  \E name \in DeclaredFixtures \ DefinedFixtures :
    Called("fixture", <<name>>, Throw("Test has unknown parameter", name), 0, 0, {})

\* The demo test, which was given testData, calls
\* getCurrentEnvironmentConfig() to log the config.
TestResolvesConfig ==
  /\ tests # <<>>
  /\ ResolvedBy("environment-demo.spec")

InitRun == Started(SomeEnvInputs, SomeLanguageInputs, CIInputs)

NextRun ==
  \/ LoadConfig
  \/ playwrightConfig.loaded /\ CallSkipInEnvironments
  \/ playwrightConfig.loaded /\ CallRunOnlyHelper
  \/ playwrightConfig.loaded /\ UseTestDataFixture
  \/ playwrightConfig.loaded /\ UseUndefinedFixture
  \/ playwrightConfig.loaded /\ TestResolvesConfig
  \/ TestModifiesRecord

SpecRun == InitRun /\ [][NextRun]_vars

-----------------------------------------------------------------------------
(* Properties of the merge, checked under SpecMerge *)

\* The last call returned a merged config.
Merged ==
  /\ call.op \in {"mergedConfig", "createEnvironmentConfig"}
  /\ ~call.outcome.threw

MergedValue == call.outcome.value
MergedEnvironment == IF call.op = "mergedConfig" THEN call.args[2] ELSE call.args[1]
MergedLanguage == IF call.op = "mergedConfig" THEN call.args[3] ELSE call.args[2]
MergedTestData ==
  IF MergedEnvironment = PROD THEN createProdTestData(MergedLanguage)
                              ELSE createTestTestData(MergedLanguage)

\* The override the last call merged: the one it was given, or the overlay of
\* the environment it was called for.
MergedOverride ==
  IF call.op = "mergedConfig" THEN call.args[1]
  ELSE IF MergedEnvironment = PROD THEN createProdConfig(MergedTestData)
                                   ELSE createTestConfig(MergedTestData)

NestedGroups == {"use", "expect"}
FactKeys == {"environment", "language", "testData"}

\* C1: in the merged config each field of the groups use and expect holds the
\* override's value when the override defines that field and the base value
\* otherwise, so that a partial nested override loses no base sibling field.
C1_NestedGroupsMergedDeeper ==
  Merged =>
    \A g \in NestedGroups :
      LET m == MergedValue[g]
          b == baseConfig[g]
          o == IF g \in DOMAIN MergedOverride THEN MergedOverride[g] ELSE <<>>
      IN  /\ DOMAIN m = DOMAIN b \cup DOMAIN o
          /\ \A k \in DOMAIN m : m[k] = IF k \in DOMAIN o THEN o[k] ELSE b[k]

\* A merge of an override whose use group defines the action timeout alone:
\* the action timeout is the override's, trace and screenshot are the base's.
C1_Witness ==
  /\ call.op = "mergedConfig"
  /\ "use" \in DOMAIN call.args[1]
  /\ DOMAIN call.args[1].use = {"actionTimeout"}
  /\ MergedValue.use.actionTimeout = 15000
  /\ MergedValue.use.trace = "retain-on-failure"
  /\ MergedValue.use.screenshot = "only-on-failure"
  /\ MergedValue.use.navigationTimeout = 20000

\* C2: every top-level key besides use, expect, workers and the facts holds
\* the override's value when the override defines it and the base value
\* otherwise; the overlays of PROD and TEST define timeout and retries, and
\* testDir, fullyParallel, forbidOnly and reporter stay those of baseConfig.
C2_TopLevelPrecedence ==
  Merged =>
    /\ DOMAIN MergedValue =
         DOMAIN baseConfig \cup DOMAIN MergedOverride \cup FactKeys
    /\ \A k \in DOMAIN MergedValue \ (NestedGroups \cup FactKeys \cup {"workers"}) :
         MergedValue[k] = IF k \in DOMAIN MergedOverride THEN MergedOverride[k]
                                                         ELSE baseConfig[k]
    /\ call.op = "createEnvironmentConfig" =>
         /\ MergedValue.timeout = IF MergedEnvironment = PROD THEN 30000 ELSE 20000
         /\ MergedValue.retries = IF MergedEnvironment = PROD THEN 1 ELSE 0
         /\ MergedValue.testDir = "./tests"
         /\ MergedValue.fullyParallel = TRUE
         /\ MergedValue.forbidOnly = baseConfig.forbidOnly
         /\ MergedValue.reporter = "html"

\* createEnvironmentConfig for TEST, under CI: timeout and retries are the
\* overlay's (the base has 5000 and 2), the reporter is the base's.
C2_Witness ==
  /\ call.op = "createEnvironmentConfig"
  /\ ~call.outcome.threw
  /\ call.args[1] = TEST
  /\ baseConfig.retries = 2
  /\ MergedValue.retries = 0
  /\ MergedValue.timeout = 20000
  /\ MergedValue.reporter = "html"

\* process.env.CI is set to a non-empty string.
UnderCI == processEnv.CI \notin {Undefined, Str(<<>>)}

\* C3: the merged workers is the override's when that is a number (2 for
\* TEST) and otherwise exactly the base's: undefined outside CI and 1 under
\* CI, as for PROD, whose overlay sets none.
C3_WorkersRetained ==
  Merged =>
    /\ "workers" \in DOMAIN MergedValue
    /\ IF "workers" \in DOMAIN MergedOverride /\ IsNumber(MergedOverride.workers)
       THEN MergedValue.workers = MergedOverride.workers
       ELSE /\ MergedValue.workers = baseConfig.workers
            /\ MergedValue.workers = IF UnderCI THEN Num(1) ELSE Undefined
    /\ call.op = "createEnvironmentConfig" /\ MergedEnvironment = TEST =>
         MergedValue.workers = Num(2)
    /\ call.op = "createEnvironmentConfig" /\ MergedEnvironment = PROD =>
         MergedValue.workers = baseConfig.workers

\* Under CI, a merge of an override whose workers is the string "50%": the
\* merged workers is the base's 1.
C3_Witness ==
  /\ call.op = "mergedConfig"
  /\ "workers" \in DOMAIN call.args[1]
  /\ call.args[1].workers = Str("50%")
  /\ UnderCI
  /\ MergedValue.workers = Num(1)

\* C4: the merged config carries the environment and the language it was
\* built for and the record built for them, whatever the override contains,
\* keys named environment, language or testData included.
C4_FactsAttached ==
  Merged =>
    /\ MergedValue.environment = MergedEnvironment
    /\ MergedValue.language = MergedLanguage
    /\ MergedValue.testData = MergedTestData
    /\ MergedValue.testData.environment = MergedEnvironment
    /\ MergedValue.testData.language = MergedLanguage

\* A merge for (PROD, en) of an override that defines environment TEST,
\* language cs and testData undefined.
C4_Witness ==
  /\ call.op = "mergedConfig"
  /\ FactKeys \subseteq DOMAIN call.args[1]
  /\ call.args[1].environment = TEST
  /\ call.args[2] = PROD
  /\ call.args[3] = EN
  /\ MergedValue.environment = PROD
  /\ MergedValue.language = EN
  /\ MergedValue.testData = createProdTestData(EN)

-----------------------------------------------------------------------------
(* Properties of the selector functions, checked under SpecSelectors *)

\* s spells the word w, letter for letter, in some mix of upper and lower case.
SpellsIgnoringCase(s, w) ==
  /\ Len(s) = Len(w)
  /\ \A i \in 1..Len(w) :
       \/ s[i] = w[i]
       \/ \E j \in DOMAIN LowerLetters :
            {s[i], w[i]} = {LowerLetters[j], UpperLetters[j]}

\* The variable is set to a spelling of a member of the enumeration.
NamesMember(v, members) ==
  /\ v # Undefined
  /\ \E m \in members : SpellsIgnoringCase(v.str, m)

\* C5: getCurrentEnvironment and getCurrentLanguage return, without throwing,
\* a member of {PROD, TEST} and of {en, cs} for every value of the variable,
\* and the default PROD and en when the variable is absent or names no member.
C5_SelectorsTotalAndClosed ==
  /\ call.op = "getCurrentEnvironment" =>
       /\ ~call.outcome.threw
       /\ call.outcome.value \in TestEnvironment
       /\ ~NamesMember(processEnv.TEST_ENV, TestEnvironment) =>
            call.outcome.value = PROD
  /\ call.op = "getCurrentLanguage" =>
       /\ ~call.outcome.threw
       /\ call.outcome.value \in TestLanguage
       /\ ~NamesMember(processEnv.TEST_LANGUAGE, TestLanguage) =>
            call.outcome.value = EN

\* getCurrentLanguage called with TEST_LANGUAGE=en-US returned en.
C5_Witness ==
  /\ call.op = "getCurrentLanguage"
  /\ processEnv.TEST_LANGUAGE = Str(<<"e","n","-","U","S">>)
  /\ call.outcome.value = EN

\* C6: for every letter case of a valid selector value the functions return
\* the member it spells, not the default.
C6_SelectorsCaseInsensitive ==
  /\ call.op = "getCurrentEnvironment" =>
       \A m \in TestEnvironment :
         /\ processEnv.TEST_ENV # Undefined
         /\ SpellsIgnoringCase(processEnv.TEST_ENV.str, m)
         => call.outcome.value = m
  /\ call.op = "getCurrentLanguage" =>
       \A m \in TestLanguage :
         /\ processEnv.TEST_LANGUAGE # Undefined
         /\ SpellsIgnoringCase(processEnv.TEST_LANGUAGE.str, m)
         => call.outcome.value = m

\* getCurrentEnvironment called with TEST_ENV=tEsT returned TEST.
C6_Witness ==
  /\ call.op = "getCurrentEnvironment"
  /\ processEnv.TEST_ENV = Str(<<"t","E","s","T">>)
  /\ call.outcome.value = TEST

\* The step is a call of the function op.
IsCallOf(op) == ncalls' = ncalls + 1 /\ call'.op = op

\* C7: a call of getCurrentEnvironment or getCurrentLanguage writes exactly one
\* warning when the variable is absent or names no member and none when it
\* names one, and nothing else.
C7_OneWarningPerFallback ==
  [][ /\ IsCallOf("getCurrentEnvironment") =>
           /\ console'.warn - console.warn =
                IF NamesMember(processEnv.TEST_ENV, TestEnvironment) THEN 0 ELSE 1
           /\ console'.log = console.log
      /\ IsCallOf("getCurrentLanguage") =>
           /\ console'.warn - console.warn =
                IF NamesMember(processEnv.TEST_LANGUAGE, TestLanguage) THEN 0 ELSE 1
           /\ console'.log = console.log ]_vars

\* Two calls of getCurrentEnvironment with TEST_ENV=dev: two warnings on the
\* console, the second call returned PROD.
C7_Witness ==
  /\ call.op = "getCurrentEnvironment"
  /\ processEnv.TEST_ENV = Str(<<"d","e","v">>)
  /\ call.outcome.value = PROD
  /\ call.warn = 1
  /\ ncalls = 2
  /\ console.warn = 2

\* What the functions that read TEST_LANGUAGE return when it is absent.
DefaultLanguageOutcome(op) ==
  CASE op = "getCurrentLanguage" -> Return(EN)
    [] op = "i18n.getCurrentLanguage" -> Return(EN)
    [] op = "tegbTexts" -> Return(en)

\* C8: for every value of TEST_LANGUAGE the functions that read it, the
\* resolver's getCurrentLanguage and the i18n module's getCurrentLanguage and
\* tegbTexts, return without throwing, and as for the default en when the
\* value is invalid.
C8_LanguageNeverAborts ==
  call.op \in {"getCurrentLanguage", "i18n.getCurrentLanguage", "tegbTexts"} =>
    /\ ~call.outcome.threw
    /\ ~NamesMember(processEnv.TEST_LANGUAGE, TestLanguage) =>
         call.outcome = DefaultLanguageOutcome(call.op)

\* C9: TEST_ENV and TEST_LANGUAGE are read by the configuration resolver alone.
C9_OnlyResolverReadsSelectors ==
  \A r \in reads :
    r[2] \in {"TEST_ENV", "TEST_LANGUAGE"} => r[1] = "environment-config"

-----------------------------------------------------------------------------
(* Properties of the dispatch on the environment, checked under Spec *)

\* C10: getTestData and createEnvironmentConfig called with an environment
\* outside {PROD, TEST} throw the error Unsupported environment, which
\* reaches the caller: no record or config is returned, and none for a
\* default environment.
C10_UnsupportedEnvironmentThrows ==
  /\ call.op \in {"getTestData", "createEnvironmentConfig"}
  /\ call.args[1] \notin TestEnvironment
  => /\ call.outcome.threw
     /\ call.outcome.error = "Unsupported environment: "
     /\ call.outcome.detail = call.args[1]
     /\ "value" \notin DOMAIN call.outcome

\* getTestData called with the environment STAGE threw.
C10_Witness ==
  /\ call.op = "getTestData"
  /\ call.args[1] = <<"S","T","A","G","E">>
  /\ call.outcome.threw
  /\ call.outcome.error = "Unsupported environment: "

-----------------------------------------------------------------------------
(* Properties of the entry points that validate, checked under SpecSelectors *)

\* C11: for every pair of values of TEST_ENV and TEST_LANGUAGE,
\* getCurrentEnvironmentConfig and the testData fixture complete and return a
\* config and a record for a member of {PROD, TEST}: the default branch of
\* the dispatch, which throws Unsupported environment, is not reached.
C11_UnsupportedEnvironmentUnreachable ==
  call.op \in {"getCurrentEnvironmentConfig", "testData"} =>
    /\ ~call.outcome.threw
    /\ "value" \in DOMAIN call.outcome
    /\ call.outcome.value.environment \in TestEnvironment
    /\ call.op = "testData" => tests # <<>> /\ heap # <<>>

\* getCurrentEnvironmentConfig with TEST_ENV=dev and TEST_LANGUAGE=cz returned
\* the config of PROD.
C11_Witness ==
  /\ call.op = "getCurrentEnvironmentConfig"
  /\ processEnv.TEST_ENV = Str(<<"d","e","v">>)
  /\ processEnv.TEST_LANGUAGE = Str(<<"c","z">>)
  /\ ~call.outcome.threw
  /\ call.outcome.value.environment = PROD

-----------------------------------------------------------------------------
(* Properties of the test data, checked under Spec *)

\* The last call is getTestData for a member of each enumeration.
GotTestData ==
  /\ call.op = "getTestData"
  /\ call.args[1] \in TestEnvironment
  /\ call.args[2] \in TestLanguage

CredentialFields == {"username", "password", "description"}

\* C12: for every environment and language of the enumerations getTestData
\* succeeds and returns a record whose environment and language are the
\* arguments, with its urls, its users and its timeouts all present.
C12_TestDataFullyPopulated ==
  GotTestData =>
    /\ ~call.outcome.threw
    /\ LET d == call.outcome.value
       IN  /\ DOMAIN d = {"environment", "language", "urls", "users", "timeouts"}
           /\ d.environment = call.args[1]
           /\ d.language = call.args[2]
           /\ DOMAIN d.urls = {"pmtool", "tegbUrl"}
           /\ \A u \in DOMAIN d.urls : d.urls[u] # ""
           /\ DOMAIN d.users = {"pmtool", "tegb"}
           /\ DOMAIN d.users.pmtool = {"admin", "regular", "test"}
           /\ DOMAIN d.users.tegb = {"admin"}
           /\ \A a \in DOMAIN d.users : \A r \in DOMAIN d.users[a] :
                DOMAIN d.users[a][r] = CredentialFields
           /\ DOMAIN d.timeouts = {"short", "medium", "long"}
           /\ \A t \in DOMAIN d.timeouts : d.timeouts[t] > 0

\* getTestData(TEST, cs) returned a record of TEST in cs.
C12_Witness ==
  /\ call.op = "getTestData"
  /\ call.args = <<TEST, CS>>
  /\ ~call.outcome.threw
  /\ call.outcome.value.environment = TEST
  /\ call.outcome.value.language = CS
  /\ call.outcome.value.urls.pmtool = "https://test.tredgate.com/pmtool"

\* The record of each builder, as a function of the arguments alone.
BuiltFor(environment, language) ==
  IF environment = PROD THEN createProdTestData(language)
                        ELSE createTestTestData(language)

\* C13: getTestData is deterministic and free of side effects: in every
\* process, whatever its TEST_ENV, TEST_LANGUAGE and CI and whatever was
\* called before, the record returned for a pair (environment, language) is
\* the same, field for field; two calls in a row with the same arguments
\* return equal records; and a call writes nothing to the console, reads no
\* environment variable and touches no record held by a test.
C13_DataBuildersDeterministic ==
  /\ [](GotTestData =>
          call.outcome = Return(BuiltFor(call.args[1], call.args[2])))
  /\ [][ IsCallOf("getTestData") =>
           /\ console' = console
           /\ reads' = reads
           /\ heap' = heap
           /\ call.op = "getTestData" /\ call.args = call'.args =>
                call'.outcome = call.outcome ]_vars

\* In a process started with TEST_ENV=TEST, TEST_LANGUAGE=en and CI=true,
\* after a call that wrote to the console, getTestData(PROD, cs) returned the
\* record of PROD in cs.
C13_Witness ==
  /\ call.op = "getTestData"
  /\ call.args = <<PROD, CS>>
  /\ ncalls = 2
  /\ console.log > 0
  /\ processEnv.TEST_ENV = Str(TEST)
  /\ processEnv.TEST_LANGUAGE = Str(EN)
  /\ UnderCI
  /\ call.outcome.value.language = CS
  /\ call.outcome.value.urls.pmtool = "https://tredgate.com/pmtool"

\* C14: the timeouts of the record returned by getTestData satisfy
\* short < medium < long, for every environment and language.
C14_TimeoutsStrictlyIncrease ==
  GotTestData =>
    /\ ~call.outcome.threw
    /\ call.outcome.value.timeouts.short < call.outcome.value.timeouts.medium
    /\ call.outcome.value.timeouts.medium < call.outcome.value.timeouts.long

\* getTestData(PROD, en) returned timeouts 5000 < 15000 < 30000.
C14_Witness ==
  /\ GotTestData
  /\ call.args = <<PROD, EN>>
  /\ call.outcome.value.timeouts.short = 5000
  /\ call.outcome.value.timeouts.medium = 15000
  /\ call.outcome.value.timeouts.long = 30000

\* The other member of {PROD, TEST}.
OtherEnvironment(environment) == IF environment = PROD THEN TEST ELSE PROD

\* C15: in the record of every environment each role has a non-empty username
\* and password, and the roles of each application are the same in PROD and
\* in TEST (pmtool: admin, regular, test; tegb: admin): the records of the
\* two environments have one shape.
C15_CredentialsAndRoles ==
  GotTestData =>
    LET d == call.outcome.value
        o == BuiltFor(OtherEnvironment(call.args[1]), call.args[2])
    IN  /\ \A a \in DOMAIN d.users : \A r \in DOMAIN d.users[a] :
             /\ d.users[a][r].username # ""
             /\ d.users[a][r].password # ""
        /\ DOMAIN d.users.pmtool = {"admin", "regular", "test"}
        /\ DOMAIN d.users.tegb = {"admin"}
        /\ DOMAIN d = DOMAIN o
        /\ DOMAIN d.urls = DOMAIN o.urls
        /\ DOMAIN d.timeouts = DOMAIN o.timeouts
        /\ DOMAIN d.users = DOMAIN o.users
        /\ \A a \in DOMAIN d.users :
             /\ DOMAIN d.users[a] = DOMAIN o.users[a]
             /\ \A r \in DOMAIN d.users[a] :
                  DOMAIN d.users[a][r] = DOMAIN o.users[a][r]
        /\ d # o

\* getTestData(TEST, en) returned the roles admin, regular and test of pmtool,
\* the last one with the credentials of TEST.
C15_Witness ==
  /\ GotTestData
  /\ call.args = <<TEST, EN>>
  /\ DOMAIN call.outcome.value.users.pmtool = {"admin", "regular", "test"}
  /\ call.outcome.value.users.pmtool.test.username = "automated_test_user"
  /\ call.outcome.value.users.pmtool.test.password = "automated_pass"

\* The last call returned the config of an environment.
GotConfig ==
  /\ call.op \in {"createEnvironmentConfig", "getCurrentEnvironmentConfig"}
  /\ ~call.outcome.threw

\* C16: PROD has longer timeouts than TEST at every level: 30000/15000/5000
\* against 20000/10000/3000 for long/medium/short, and a merged global
\* timeout of 30000 against 20000.
C16_ProdTimeoutsLonger ==
  /\ GotTestData =>
       LET t == call.outcome.value.timeouts
           o == BuiltFor(OtherEnvironment(call.args[1]), call.args[2]).timeouts
       IN  IF call.args[1] = PROD
           THEN /\ t = [ long |-> 30000, medium |-> 15000, short |-> 5000 ]
                /\ \A k \in DOMAIN t : t[k] > o[k]
           ELSE /\ t = [ long |-> 20000, medium |-> 10000, short |-> 3000 ]
                /\ \A k \in DOMAIN t : t[k] < o[k]
  /\ GotConfig =>
       LET c == call.outcome.value
           o == createEnvironmentConfig(baseConfig, OtherEnvironment(c.environment),
                                        c.language).value
       IN  IF c.environment = PROD
           THEN c.timeout = 30000 /\ c.timeout > o.timeout
           ELSE c.timeout = 20000 /\ c.timeout < o.timeout

\* createEnvironmentConfig(PROD, cs) returned the global timeout 30000.
C16_Witness ==
  /\ call.op = "createEnvironmentConfig"
  /\ call.args = <<PROD, CS>>
  /\ ~call.outcome.threw
  /\ call.outcome.value.timeout = 30000
  /\ call.outcome.value.testData.timeouts.long = 30000

\* C17: the merged retries is 0 under TEST and greater under PROD, and is the
\* value of the environment's overlay whether CI is set or not: the 2 of the
\* base under CI does not reach the merged config.
C17_RetriesPerEnvironment ==
  GotConfig =>
    LET c == call.outcome.value
    IN  /\ c.environment = TEST => c.retries = 0
        /\ c.environment = PROD => c.retries > 0
        /\ LET o == IF c.environment = PROD THEN createProdConfig(c.testData)
                                            ELSE createTestConfig(c.testData)
           IN  "retries" \in DOMAIN o /\ c.retries = o.retries
        /\ UnderCI => baseConfig.retries = 2 /\ c.retries # 2

\* Under CI, where the base retries is 2, createEnvironmentConfig(TEST, en)
\* returned retries 0.
C17_Witness ==
  /\ call.op = "createEnvironmentConfig"
  /\ call.args = <<TEST, EN>>
  /\ UnderCI
  /\ baseConfig.retries = 2
  /\ ~call.outcome.threw
  /\ call.outcome.value.retries = 0

\* The member of the enumeration that the variable spells.
MemberNamed(v, members) == CHOOSE m \in members : SpellsIgnoringCase(v.str, m)

\* C18: when TEST_ENV and TEST_LANGUAGE name members env and lang,
\* getCurrentEnvironmentConfig returns a config whose environment and
\* testData.environment are env, whose language and testData.language are
\* lang, whose timeout is 30000 for PROD and 20000 for TEST, and whose workers
\* is the overlay's 2 for TEST and the base's value for PROD.
C18_EndToEnd ==
  ( /\ call.op = "getCurrentEnvironmentConfig"
    /\ NamesMember(processEnv.TEST_ENV, TestEnvironment)
    /\ NamesMember(processEnv.TEST_LANGUAGE, TestLanguage) ) =>
    LET env == MemberNamed(processEnv.TEST_ENV, TestEnvironment)
        lang == MemberNamed(processEnv.TEST_LANGUAGE, TestLanguage)
        c == call.outcome.value
    IN  /\ ~call.outcome.threw
        /\ c.environment = env
        /\ c.testData.environment = env
        /\ c.language = lang
        /\ c.testData.language = lang
        /\ c.testData = BuiltFor(env, lang)
        /\ c.timeout = IF env = PROD THEN 30000 ELSE 20000
        /\ c.workers = IF env = TEST THEN Num(2) ELSE baseConfig.workers
        /\ env = PROD => c.workers = IF UnderCI THEN Num(1) ELSE Undefined

\* With TEST_ENV=prod and TEST_LANGUAGE=Cs outside CI,
\* getCurrentEnvironmentConfig returned the config of PROD in cs with timeout
\* 30000 and workers undefined.
C18_Witness ==
  /\ call.op = "getCurrentEnvironmentConfig"
  /\ processEnv.TEST_ENV = Str(<<"p", "r", "o", "d">>)
  /\ processEnv.TEST_LANGUAGE = Str(<<"C", "s">>)
  /\ ~UnderCI
  /\ ~call.outcome.threw
  /\ call.outcome.value.testData.environment = PROD
  /\ call.outcome.value.testData.language = CS
  /\ call.outcome.value.timeout = 30000
  /\ call.outcome.value.workers = Undefined

\* What getCurrentEnvironmentConfig returns in a process started with the
\* selectors of this one and CI set to ci.
ResolvedWithCI(ci) ==
  LET penv == [ processEnv EXCEPT !.CI = ci ]
  IN  getCurrentEnvironmentConfig(baseConfigAtLoad(penv), penv).value

\* C19, as stated: every process with the same TEST_ENV and TEST_LANGUAGE gets
\* from getCurrentEnvironmentConfig the same merged config, whatever else its
\* environment holds.
C19_SelectorsAloneDetermineConfig ==
  call.op = "getCurrentEnvironmentConfig" =>
    \A ci \in CIInputs : ResolvedWithCI(ci) = call.outcome

\* C19, amended: getCurrentEnvironmentConfig is a function of TEST_ENV,
\* TEST_LANGUAGE and of whether CI is set to a non-empty string: every process
\* that agrees on the three gets the same merged config, a repeated call in
\* one process returns what the call before it returned, and environment,
\* language and the test-data record depend on the two selectors only.
C19_SelectorsAndCIDetermineConfig ==
  /\ [](call.op = "getCurrentEnvironmentConfig" =>
          \A ci \in CIInputs :
            /\ Falsy(ci) = Falsy(processEnv.CI) => ResolvedWithCI(ci) = call.outcome
            /\ ~ResolvedWithCI(ci).threw
            /\ ResolvedWithCI(ci).value.testData = call.outcome.value.testData
            /\ ResolvedWithCI(ci).value.environment = call.outcome.value.environment
            /\ ResolvedWithCI(ci).value.language = call.outcome.value.language)
  /\ [][ ( /\ IsCallOf("getCurrentEnvironmentConfig")
           /\ call.op = "getCurrentEnvironmentConfig" ) =>
             call'.outcome = call.outcome ]_vars

\* Under CI getCurrentEnvironmentConfig was called twice and returned a config
\* of PROD with forbidOnly set and one worker.
C19_Witness ==
  /\ call.op = "getCurrentEnvironmentConfig"
  /\ ncalls = 2
  /\ console.log = 4
  /\ UnderCI
  /\ ~call.outcome.threw
  /\ call.outcome.value.environment = PROD
  /\ call.outcome.value.forbidOnly = TRUE
  /\ call.outcome.value.workers = Num(1)

\* C20: the fixture hands each test a record equal to getTestData(resolved
\* environment, resolved language), which is the testData of the merged config
\* of the process, and the records of different tests are different objects:
\* a test that modifies its record changes no other test's record.
C20_FixtureRecordsIndependent ==
  /\ [](\A t, u \in DOMAIN tests : t # u => tests[t] # tests[u])
  /\ [][ IsCallOf("testData") =>
           /\ ~call'.outcome.threw
           /\ Len(tests') = Len(tests) + 1
           /\ heap'[tests'[Len(tests')]] = call'.outcome.value
           /\ heap'[tests'[Len(tests')]] =
                getTestData(getCurrentEnvironment(processEnv).value,
                            getCurrentLanguage(processEnv).value).value
           /\ heap'[tests'[Len(tests')]] =
                getCurrentEnvironmentConfig(baseConfig, processEnv).value.value.testData
           /\ \A t \in DOMAIN tests :
                tests'[t] = tests[t] /\ heap'[tests'[t]] = heap[tests[t]] ]_vars
  /\ [][ (tests' = tests /\ heap' # heap) =>
           \E t \in DOMAIN tests :
             \A u \in DOMAIN tests \ {t} : heap'[tests[u]] = heap[tests[u]] ]_vars

\* Two tests got a record, the first one set its short timeout to 0 and the
\* second one's record still holds the timeout of the environment.
C20_Witness ==
  /\ Len(tests) = 2
  /\ heap[tests[1]].timeouts.short = 0
  /\ heap[tests[2]].timeouts.short = 3000
  /\ heap[tests[2]] = BuiltFor(TEST, CS)

\* What the last call, which returned a merged config, returns on the base
\* config as it was at module load.
MergedOnLoadedBase ==
  IF call.op = "mergedConfig"
  THEN mergedConfig(baseConfigAtLoad(processEnv), call.args[1], call.args[2],
                    call.args[3], getTestData(call.args[2], call.args[3]).value)
  ELSE createEnvironmentConfig(baseConfigAtLoad(processEnv),
                               call.args[1], call.args[2]).value

\* C26: baseConfig, its groups use and expect included, is never changed by a
\* call of createEnvironmentConfig or by a caller that writes into the config
\* it was returned: the groups of a returned config are objects of its own,
\* and every later call returns what it returns on the base as loaded.
C26_BaseConfigReadOnly ==
  /\ [](baseConfig = baseConfigAtLoad(processEnv))
  /\ [](held # NoConfig => held.shared = {})
  /\ [](Merged => call.outcome.value = MergedOnLoadedBase)
  /\ [][baseConfig' = baseConfig]_vars

\* A caller wrote a timeout into both groups of the config it was returned
\* for an override without the group expect, and the base still holds its own.
C26_Witness ==
  /\ held # NoConfig
  /\ call.op = "mergedConfig"
  /\ "expect" \notin DOMAIN call.args[1]
  /\ held.value.expect.timeout = 1
  /\ "timeout" \in DOMAIN held.value.use
  /\ baseConfig.expect.timeout = 5000
  /\ "timeout" \notin DOMAIN baseConfig.use

-----------------------------------------------------------------------------
(* Properties of the fixture layer and of the bootstrap, checked under     *)
(* SpecRun                                                                 *)

\* C21: a call skipInEnvironments(envs, name, fn) registers exactly one group:
\* a skipped one, titled name [Skipped in <env>], when the environment that
\* getCurrentEnvironment returns is a member of envs, and a runnable one
\* otherwise; with envs = [TEST] the group is skipped when TEST_ENV spells
\* TEST and runnable when it spells PROD, is absent or names no member.
C21_SkipInEnvironmentsRegistersOne ==
  [][ IsCallOf("skipInEnvironments") =>
        LET env == getCurrentEnvironment(processEnv).value
            envs == call'.args[1]
            name == call'.args[2]
            g == groups'[Len(groups')]
        IN  /\ Len(groups') = Len(groups) + 1
            /\ SubSeq(groups', 1, Len(groups)) = groups
            /\ g.skipped = (\E i \in DOMAIN envs : envs[i] = env)
            /\ g.title = IF g.skipped THEN <<name, " [Skipped in ", env, "]">>
                                      ELSE <<name, " [", env, "]">>
            /\ envs = <<TEST>> =>
                 g.skipped = NamesMember(processEnv.TEST_ENV, {TEST}) ]_vars

\* With TEST_ENV=Test, skipInEnvironments([TEST], ...) registered one group,
\* skipped and annotated with TEST.
C21_Witness ==
  /\ call.op = "skipInEnvironments"
  /\ call.args[1] = <<TEST>>
  /\ processEnv.TEST_ENV = Str(<<"T","e","s","t">>)
  /\ Len(groups) = 1
  /\ groups[1].skipped
  /\ groups[1].title = <<"PMTOOL Login/Logout Tests", " [Skipped in ", TEST, "]">>

\* C22: a call of the run-only helper (runOnlyInEnvironments or
\* testInEnvironments) registers one group, runnable when the resolved
\* environment is a member of envs and skipped otherwise.
C22_RunOnlyHelperRegisters ==
  call.op \in RunOnlyHelpers =>
    /\ ~call.outcome.threw
    /\ groups # <<>>
    /\ groups[Len(groups)].skipped =
         ~(\E i \in DOMAIN call.args[1] :
             call.args[1][i] = getCurrentEnvironment(processEnv).value)

\* Position 3 of a group's title: the environment the group was decided for.
DecidedFor(g) == groups[g].title[3]

\* C23: a registered group stays as it was registered, whatever happens later
\* in the process (another registration, a fixture set up, a test body), and
\* every group is decided for the environment that the merged config of the
\* process and the records handed to its tests carry.
C23_DecisionFixedAtRegistration ==
  /\ [][ \A g \in DOMAIN groups :
           g \in DOMAIN groups' /\ groups'[g] = groups[g] ]_vars
  /\ [](\A g \in DOMAIN groups :
          /\ playwrightConfig.loaded
          /\ DecidedFor(g) = playwrightConfig.environmentConfig.environment
          /\ DecidedFor(g) = playwrightConfig.environmentConfig.testData.environment
          /\ \A t \in DOMAIN tests : heap[tests[t]].environment = DecidedFor(g))

\* With TEST_ENV=Test a group was registered as skipped, and then a test was
\* handed the record of TEST; the group is still skipped.
C23_Witness ==
  /\ Len(groups) = 1
  /\ groups[1].skipped
  /\ DecidedFor(1) = TEST
  /\ call.op = "testData"
  /\ Len(tests) = 1
  /\ heap[tests[1]].environment = TEST
  /\ processEnv.TEST_ENV = Str(<<"T","e","s","t">>)

\* C24: a test that asks for a declared fixture, testData or envConfig, is
\* given it, and envConfig is the merged config of the current environment.
C24_DeclaredFixturesAvailable ==
  /\ call.op = "testData" => ~call.outcome.threw
  /\ call.op = "fixture" =>
       /\ call.args[1] \in DeclaredFixtures
       /\ ~call.outcome.threw
       /\ call.outcome.value = playwrightConfig.environmentConfig

\* C25, as stated: getCurrentEnvironmentConfig is invoked once in a process,
\* by playwright.config.ts, and by nothing else.
C25_ResolvedOncePerProcess ==
  /\ Len(resolutions) <= 1
  /\ playwrightConfig.loaded => resolutions = <<"playwright.config">>

\* C25, amended: playwright.config.ts invokes getCurrentEnvironmentConfig
\* once, before any group is registered and any fixture set up; the fixture
\* layer never invokes it; a test body may invoke it again, and is returned a
\* config equal to the one resolved at load.
C25_BootstrapResolvesOnce ==
  /\ [](playwrightConfig.loaded <=> resolutions # <<>>)
  /\ [](\A i \in DOMAIN resolutions :
          resolutions[i] = IF i = 1 THEN "playwright.config"
                                    ELSE "environment-demo.spec")
  /\ [](groups # <<>> \/ tests # <<>> => playwrightConfig.loaded)
  /\ [](call.op = "getCurrentEnvironmentConfig" =>
          /\ ~call.outcome.threw
          /\ call.outcome.value = playwrightConfig.environmentConfig)
  /\ [][ IsCallOf("testData") \/ IsCallOf("skipInEnvironments") =>
           /\ resolutions' = resolutions
           /\ console'.log - console.log = IF IsCallOf("testData") THEN 1 ELSE 0 ]_vars

\* After the load, a test that was handed testData called
\* getCurrentEnvironmentConfig again and got the config resolved at load.
C25_Witness ==
  /\ resolutions = <<"playwright.config", "environment-demo.spec">>
  /\ call.op = "getCurrentEnvironmentConfig"
  /\ tests # <<>>
  /\ call.outcome.value = playwrightConfig.environmentConfig
  /\ console.log = 5

\* C27: the config that playwright.config.ts exports carries the merged
\* config's expect.timeout, the medium timeout of the environment, as it
\* carries its retries, workers, timeout and use group.
C27_ExpectTimeoutExported ==
  playwrightConfig.loaded =>
    LET merged == playwrightConfig.environmentConfig
        exported == playwrightConfig.exported
    IN  /\ exported.retries = merged.retries
        /\ exported.workers = merged.workers
        /\ exported.timeout = merged.timeout
        /\ exported.use = merged.use
        /\ "expect" \in DOMAIN exported
        /\ exported.expect.timeout = merged.expect.timeout
        /\ exported.expect.timeout = merged.testData.timeouts.medium

\* C28: in the exported config the four properties of use are the merged
\* config's, never the literal's own actionTimeout = medium and
\* navigationTimeout = long: under TEST they are 3000 and 10000.
C28_MergedUseWins ==
  playwrightConfig.loaded =>
    LET merged == playwrightConfig.environmentConfig
        exported == playwrightConfig.exported
    IN  /\ \A k \in UseFields : k \in DOMAIN merged.use /\ exported.use[k] = merged.use[k]
        /\ DOMAIN exported.use = UseFields
        /\ merged.environment = TEST =>
             /\ exported.use.actionTimeout = 3000
             /\ exported.use.navigationTimeout = 10000
             /\ exported.use.actionTimeout # merged.testData.timeouts.medium
             /\ exported.use.navigationTimeout # merged.testData.timeouts.long

\* Under TEST the exported config has actionTimeout 3000 and navigationTimeout
\* 10000, where the literal's own values are 10000 and 20000.
C28_Witness ==
  /\ playwrightConfig.loaded
  /\ playwrightConfig.environmentConfig.environment = TEST
  /\ playwrightConfig.exported.use.actionTimeout = 3000
  /\ playwrightConfig.exported.use.navigationTimeout = 10000
  /\ playwrightConfig.environmentConfig.testData.timeouts.medium = 10000
  /\ playwrightConfig.environmentConfig.testData.timeouts.long = 20000

====
